---- MODULE Spec2Model ----
(***************************************************************************)
(* Brand-visibility analysis pipeline of founders-toolkit-api.             *)
(*                                                                         *)
(* One HTTP request is handled per behaviour, by one of the two handlers   *)
(*   BrandWorkflowHandler   (Multi-Call strategy,  scanner.go)             *)
(*   AnalyzeAndCreateScan   (Single-Call strategy, scanmanager.go)         *)
(* against a database that may already hold rows of earlier requests.      *)
(* Every call to the generative service is two steps: the request is       *)
(* issued at the end of one action and its outcome is consumed by the next *)
(* one, so that time can pass while the call is in flight.                 *)
(*                                                                         *)
(* Texts are sequences of one-character strings.  float64 scores are exact *)
(* rationals [num, den] in lowest terms (rounding is not modelled).        *)
(***************************************************************************)
EXTENDS Integers, Sequences, FiniteSets, TLC

VARIABLES
    strategy,          \* "none" | "multi" | "single": the handler serving the request
    pc,                \* position of the handler
    cfg,               \* BrandWorkflowConfig: <<NumDirect, NumIntermediate, NumIndirect>>
    cur,               \* category (1..3) of the call in flight
    qi,                \* index, in queries[cur], of the query being processed
    queries,           \* directQueries, intermediateQueries, indirectQueries
    results,           \* accumulated []QueryBrandsResult of each category
    procReturn,        \* value returned by the latest ProcessQueriesForType that returned
    scores,            \* directScore, intermediateScore, indirectScore, visibilityScore
    allQueries,        \* collectAllQueries(analysis)
    suggestions,       \* GenerateSuggestionsForSite(...)
    result,            \* Single-Call: *SEOAnalysisResult after normalize and clamp
    trace,             \* requests sent to the collaborators, in order, with their outcome
    now,               \* seconds since the request arrived
    outerDeadline,     \* deadline of ctx (the run)
    perQueryStart,     \* when perQueryCtx was made
    perQueryDeadline,  \* deadline of perQueryCtx (the query being processed)
    response,          \* what response.Respond wrote
    brand_analyses,    \* table brand_analyses
    scans,             \* table scans
    initial,           \* the tables as the request found them
    fn                 \* a function called on its own: its name, argument, returned values

vars == <<strategy, pc, cfg, cur, qi, queries, results, procReturn, scores,
          allQueries, suggestions, result, trace, now, outerDeadline,
          perQueryStart, perQueryDeadline, response, brand_analyses, scans, initial, fn>>

(***************************************************************************)
(* Bounds of the model                                                     *)
(***************************************************************************)
\* largest per-category query count a request asks for
MaxNum == 2
\* largest number of brands the service reports for one query
MaxBrands == 11

(***************************************************************************)
(* Program constants                                                       *)
(***************************************************************************)
\* context.WithTimeout(c.Request.Context(), 10*time.Minute), in seconds
OuterTimeout == 600
\* context.WithTimeout(ctx, 300*time.Second)
PerQueryTimeout == 300
\* context.WithTimeout(c.Request.Context(), 120*time.Second)
SingleTimeout == 120
\* const maxBrandsPerQuery = 10.0
maxBrandsPerQuery == 10
\* granularity of the clock: time advances by at most this much per step
TickStep == PerQueryTimeout \div 2

Min(a, b) == IF a <= b THEN a ELSE b

(***************************************************************************)
(* Texts                                                                   *)
(***************************************************************************)
WhiteSpace == {" ", "\n", "\t"}

RECURSIVE TrimLeft(_)
TrimLeft(s) ==
    IF s # <<>> /\ Head(s) \in WhiteSpace THEN TrimLeft(Tail(s)) ELSE s

RECURSIVE TrimRight(_)
TrimRight(s) ==
    IF s # <<>> /\ s[Len(s)] \in WhiteSpace
    THEN TrimRight(SubSeq(s, 1, Len(s) - 1)) ELSE s

\* strings.TrimSpace
TrimSpace(s) == TrimRight(TrimLeft(s))

(***************************************************************************)
(* Go slices: nil is distinct from empty                                   *)
(***************************************************************************)
NilSlice == [isNil |-> TRUE, items |-> <<>>]
Slice(s) == [isNil |-> FALSE, items |-> s]

(***************************************************************************)
(* float64 as exact rationals                                              *)
(***************************************************************************)
RECURSIVE GCD(_, _)
GCD(a, b) == IF b = 0 THEN a ELSE GCD(b, a % b)

Abs(a) == IF a < 0 THEN -a ELSE a

\* n/d in lowest terms, d > 0
Rat(n, d) ==
    LET g == GCD(Abs(n), d)
    IN  IF n = 0 THEN [num |-> 0, den |-> 1] ELSE [num |-> n \div g, den |-> d \div g]

RLeq(a, b) == a.num * b.den <= b.num * a.den
RAdd(a, b) == Rat(a.num * b.den + b.num * a.den, a.den * b.den)
RMul(a, b) == Rat(a.num * b.num, a.den * b.den)
RDiv(a, b) == Rat(a.num * b.den, a.den * b.num)
RInt(n) == [num |-> n, den |-> 1]
RZero == RInt(0)

(***************************************************************************)
(* What the collaborators may answer                                       *)
(***************************************************************************)
Qa == <<"a">>
QaPadded == <<"a", " ">>
Qb == <<" ", "b">>
Blank == <<" ">>

Categories == <<"direct", "intermediate", "indirect">>
NumCats == Len(Categories)

\* Outcome of client.Responses.New followed by OutputText:
\*   transport  the request failed (network, auth, quota, context done)
\*   blank      the request succeeded and the text is empty once trimmed
\*   malformed  non-empty text whose JSON part does not decode into the target
\*   json       non-empty text whose JSON part decodes into value
\*   text       non-empty free text (research notes)
Outcome(k, v) == [kind |-> k, value |-> v]
TransportErr == Outcome("transport", <<>>)
BlankText == Outcome("blank", <<>>)
Malformed == Outcome("malformed", <<>>)

\* query lists the service may produce: none, a blank entry before a query,
\* and more entries than any request asks for
GenCatalogue == { <<>>, <<Blank, QaPadded>>, <<Qa, Qb, Blank, Qa>> }

GenOutcomes ==
    {TransportErr, BlankText, Malformed} \cup {Outcome("json", l) : l \in GenCatalogue}

ResearchOutcomes == {TransportErr, BlankText, Outcome("text", <<"n">>)}

\* one decoded entry of "brands"; the citations of every other entry are null
DecodedBrand(i) ==
    [Name |-> <<"x">>, URL |-> <<>>,
     Citations |-> IF i % 2 = 0 THEN NilSlice ELSE Slice(<<<<"c">>>>)]

BrandCounts == {0, MaxBrands}

BrandCatalogue == { [i \in 1..k |-> DecodedBrand(i)] : k \in BrandCounts }

ExtractOutcomes ==
    {TransportErr, BlankText, Malformed} \cup {Outcome("json", b) : b \in BrandCatalogue}

\* "Maximum 10 suggestions." is what the prompt asks of the service
MaxSuggestionsAsked == 10

\* answers of the service: no list, a short list, a list longer than asked
SuggestCatalogue ==
    { NilSlice,
      Slice(<< <<" ", "s", " ">>, Blank, <<"t">> >>),
      Slice([k \in 1..(MaxSuggestionsAsked + 1) |-> <<"t">>]) }

SuggestOutcomes ==
    {TransportErr, BlankText, Malformed} \cup {Outcome("json", s) : s \in SuggestCatalogue}

(***************************************************************************)
(* Multi-Call strategy: pure parts                                         *)
(***************************************************************************)
\* callOpenAIText returns a non-nil error
CallFailed_IgnoreEmpty(out) == out.kind = "transport"
CallFailed(out) == out.kind \in {"transport", "blank"}

\* json.Unmarshal of the extracted JSON part returns an error
DecodeFailed_Never(out) == FALSE
DecodeFailed(out) == out.kind = "malformed"

\* if len(queries) > n { queries = queries[:n] }
TruncateQueries_Keep(qs, n) == qs
TruncateQueries(qs, n) == IF Len(qs) > n THEN SubSeq(qs, 1, n) ELSE qs

\* the loop over parsed.Brands: a nil Citations becomes []string{}
NormalizeBrands_Keep(bs) == bs
NormalizeBrands(bs) ==
    [i \in 1..Len(bs) |->
        IF bs[i].Citations.isNil THEN [bs[i] EXCEPT !.Citations = Slice(<<>>)] ELSE bs[i]]

\* if strings.TrimSpace(q) == "" { continue }
IsBlankQuery_Never(q) == FALSE
IsBlankQuery(q) == TrimSpace(q) = <<>>

\* the positions, category by category and query by query, that ProcessSingleQuery
\* is still to be called for, from position <<c, i>> on
WorkFrom(qs, c, i) ==
    UNION { { <<k, j>> : j \in { x \in 1..Len(qs[k]) :
                                   /\ ~IsBlankQuery(qs[k][x])
                                   /\ (k > c \/ x >= i) } } : k \in c..NumCats }

Before(v, w) == v[1] < w[1] \/ (v[1] = w[1] /\ v[2] <= w[2])

NoWork == <<0, 0>>

NextWork(qs, c, i) ==
    LET ws == WorkFrom(qs, c, i)
    IN  IF ws = {} THEN NoWork ELSE CHOOSE w \in ws : \A v \in ws : Before(w, v)

\* value ProcessQueriesForType returns with its error
ProcessFailureReturn_Partial(partial) == Slice(partial)
ProcessFailureReturn(partial) == NilSlice

\* countBrandsInGroup
countBrandsInGroup_Queries(g) == Len(g)
RECURSIVE countBrandsInGroup(_)
countBrandsInGroup(g) ==
    IF g = <<>> THEN 0 ELSE Len(Head(g).Brands) + countBrandsInGroup(Tail(g))

\* maxDirect := maxBrandsPerQuery * float64(cfg.NumDirect); if 0 then 1
MaxForCategory(n) == IF maxBrandsPerQuery * n = 0 THEN 1 ELSE maxBrandsPerQuery * n

\* (float64(brands) / max) * 100.0
CategoryScore(g, n) ==
    RMul(Rat(countBrandsInGroup(g), MaxForCategory(n)), RInt(100))

\* 0.5*directScore + 0.3*intermediateScore + 0.2*indirectScore
Visibility(d, i, n) ==
    RAdd(RAdd(RMul(Rat(5, 10), d), RMul(Rat(3, 10), i)), RMul(Rat(2, 10), n))

ComputedScores(res, c) ==
    LET d == CategoryScore(res[1], c[1])
        i == CategoryScore(res[2], c[2])
        n == CategoryScore(res[3], c[3])
    IN  [direct |-> d, intermediate |-> i, indirect |-> n, visibility |-> Visibility(d, i, n)]

\* the keys of the map m in collectAllQueries
QueryKeys_Untrimmed(res) ==
    UNION { { res[c][j].Query : j \in 1..Len(res[c]) } : c \in 1..NumCats } \ {<<>>}
QueryKeys(res) ==
    UNION { { TrimSpace(res[c][j].Query) : j \in 1..Len(res[c]) } : c \in 1..NumCats }
        \ {<<>>}

\* collectAllQueries: the keys in the order the map iteration yields them
collectAllQueries(res) ==
    LET keys == QueryKeys(res)
        n == Cardinality(keys)
    IN  { f \in [1..n -> keys] : \A x, y \in 1..n : f[x] = f[y] => x = y }

\* the "normalize" loop of GenerateSuggestionsForSite
RECURSIVE NormalizeSuggestions(_)
NormalizeSuggestions(ss) ==
    IF ss = <<>> THEN <<>>
    ELSE LET s == TrimSpace(Head(ss))
         IN  IF s # <<>> THEN <<s>> \o NormalizeSuggestions(Tail(ss))
             ELSE NormalizeSuggestions(Tail(ss))

\* FinalBrandAnalysis{Indirect, Intermediate, Direct}
FinalAnalysis(res) ==
    [Direct |-> [Queries |-> Slice(res[1])],
     Intermediate |-> [Queries |-> Slice(res[2])],
     Indirect |-> [Queries |-> Slice(res[3])]]

\* json.Marshal(analysis)
MarshalAnalysis(a) == [json |-> a]

\* models.BrandAnalysis{...}
BrandAnalysisRow(sc, sugg, qs, a) ==
    [SiteID |-> 1, UserID |-> 1,
     DirectScore |-> sc.direct, IntermediateScore |-> sc.intermediate,
     IndirectScore |-> sc.indirect, VisibilityScore |-> sc.visibility,
     Suggestions |-> sugg, Queries |-> qs, Analysis |-> MarshalAnalysis(a)]

\* db.DB.Table(...).Create(&row): one more row, the others untouched
InsertRow_Overwrite(table, row) ==
    IF table = <<>> THEN <<row>> ELSE [table EXCEPT ![Len(table)] = row]
InsertRow(table, row) == Append(table, row)

\* response.Respond(c, status, message, data)
NoData == [isNil |-> TRUE]
Respond(status, message, data) == [status |-> status, message |-> message, data |-> data]
NoResponse == Respond(0, "", NoData)

\* gin.H{"analysis", "suggestions", "queries"} of the "save failed" response
SaveFailedData_Nothing(a, sugg, qs) == NoData
SaveFailedData(a, sugg, qs) == [analysis |-> a, suggestions |-> sugg, queries |-> qs]

\* err.Error() of the error a failed call leaves: the error of the client,
\* the empty-output error of callOpenAIText, or the error of json.Unmarshal
ErrorOf(out) ==
    CASE out.kind = "transport" -> "client error"
      [] out.kind = "blank" -> "empty output from OpenAI"
      [] out.kind = "malformed" -> "failed to parse JSON"
      [] OTHER -> ""

\* the zero value of parsed/queries when the text did not decode
DecodedList(out) == IF out.kind = "json" THEN out.value ELSE <<>>
DecodedSuggestions(out) == IF out.kind = "json" THEN out.value.items ELSE <<>>

(***************************************************************************)
(* Single-Call strategy: pure parts                                        *)
(***************************************************************************)
\* s[:n] when len(s) > n
Take(s, n) == IF Len(s) > n THEN SubSeq(s, 1, n) ELSE s

NonNil(sl) == IF sl.isNil THEN Slice(<<>>) ELSE sl

\* var rankWeights = map[int]float64{1: 1.0, 2: 0.8, 3: 0.6, 4: 0.4, 5: 0.2}
HasRankWeight_TopOnly(r) == r = 1
HasRankWeight(r) == r \in 1..5
rankWeights(r) ==
    CASE r = 1 -> Rat(10, 10)
      [] r = 2 -> Rat(8, 10)
      [] r = 3 -> Rat(6, 10)
      [] r = 4 -> Rat(4, 10)
      [] r = 5 -> Rat(2, 10)

\* the inner loop of normalizeResult: weights of the hits flagged as mention
RECURSIVE WeightedMentions(_)
WeightedMentions(hits) ==
    IF hits = <<>> THEN RZero
    ELSE LET re == Head(hits)
         IN  IF re.IsMention /\ HasRankWeight(re.Rank)
             THEN RAdd(rankWeights(re.Rank), WeightedMentions(Tail(hits)))
             ELSE WeightedMentions(Tail(hits))

\* dSum, iSum, nSum: the weights summed over the entries of one type
RECURSIVE TypeSum(_, _)
TypeSum(pqs, type) ==
    IF pqs = <<>> THEN RZero
    ELSE IF Head(pqs).Type = type
         THEN RAdd(WeightedMentions(Head(pqs).Results), TypeSum(Tail(pqs), type))
         ELSE TypeSum(Tail(pqs), type)

\* dCnt, iCnt, nCnt, floored to 1
TypeCount(pqs, type) ==
    LET cnt == Cardinality({k \in 1..Len(pqs) : pqs[k].Type = type})
    IN  IF cnt = 0 THEN 1 ELSE cnt

\* (dSum / float64(dCnt)) * 100.0
RankScore(pqs, type) ==
    RMul(RDiv(TypeSum(pqs, type), RInt(TypeCount(pqs, type))), RInt(100))

\* the guard of the recomputation in normalizeResult
RecomputeTrigger_Always(r) == TRUE
RecomputeTrigger(r) ==
    /\ Len(r.PerQueryResults) > 0
    /\ r.Scores.direct = RZero
    /\ r.Scores.intermediate = RZero
    /\ r.Scores.indirect = RZero

RecomputedScores(pqs) ==
    LET d == RankScore(pqs, "direct")
        i == RankScore(pqs, "intermediate")
        n == RankScore(pqs, "indirect")
    IN  [direct |-> d, intermediate |-> i, indirect |-> n, visibility |-> Visibility(d, i, n)]

TrimAll(ss) == [k \in 1..Len(ss) |-> TrimSpace(ss[k])]

normalizeResult(r) ==
    LET direct == Take(NonNil(r.Queries.Direct).items, 1)
        inter == Take(NonNil(r.Queries.Intermediate).items, 1)
        indirect == Take(NonNil(r.Queries.Indirect).items, 1)
        used == NonNil(r.AllOfTheQueriesUsed).items
    IN  [Queries |-> [Direct |-> Slice(direct), Intermediate |-> Slice(inter),
                      Indirect |-> Slice(indirect)],
         PerQueryResults |-> r.PerQueryResults,
         Scores |-> IF RecomputeTrigger(r) THEN RecomputedScores(r.PerQueryResults)
                    ELSE r.Scores,
         Citations |-> Slice(TrimAll(NonNil(r.Citations).items)),
         KeywordsFromTheQueries |-> NonNil(r.KeywordsFromTheQueries),
         AllOfTheQueriesUsed |->
             IF Len(used) = 0 THEN Slice(direct \o inter \o indirect) ELSE Slice(used),
         Suggestions |-> NonNil(r.Suggestions)]

\* hard caps of clampResult
MaxKeywords == 15
MaxSuggestionsSingle == 8
MaxCitations == 10
MaxQueriesUsed == 3

clampResult(r) ==
    [r EXCEPT !.KeywordsFromTheQueries = Slice(Take(@.items, MaxKeywords)),
              !.Suggestions = Slice(Take(@.items, MaxSuggestionsSingle)),
              !.Citations = Slice(Take(@.items, MaxCitations)),
              !.AllOfTheQueriesUsed = Slice(Take(@.items, MaxQueriesUsed))]

\* models.Scan{...}
ScanRow(r) ==
    [SiteID |-> 1, UserID |-> 1, Completed |-> TRUE, Failed |-> FALSE,
     Score1 |-> r.Scores.direct, Score2 |-> r.Scores.intermediate,
     Score3 |-> r.Scores.indirect, VisibilityScore |-> r.Scores.visibility,
     Keywords |-> r.KeywordsFromTheQueries.items, Suggestions |-> r.Suggestions.items,
     Citations |-> r.Citations.items, Queries |-> r.AllOfTheQueriesUsed.items]

\* what the service may put in the single JSON object
Hit(rank, mention) == [Rank |-> rank, IsMention |-> mention]
PerQuery(type, hits) == [Type |-> type, Query |-> Qa, Results |-> hits]

PerQueryCatalogue ==
    { <<>>,
      << PerQuery("direct", <<Hit(1, TRUE)>>) >>,
      << PerQuery("direct", <<Hit(1, TRUE), Hit(2, TRUE), Hit(3, TRUE), Hit(4, FALSE)>>),
         PerQuery("direct", <<Hit(5, TRUE)>>),
         PerQuery("intermediate", <<Hit(2, TRUE), Hit(7, TRUE)>>),
         PerQuery("other", <<Hit(1, TRUE)>>) >> }

ScoreSet(d, i, n, v) ==
    [direct |-> RInt(d), intermediate |-> RInt(i), indirect |-> RInt(n),
     visibility |-> RInt(v)]

ScoresCatalogue ==
    { ScoreSet(0, 0, 0, 0), ScoreSet(0, 0, 0, 42), ScoreSet(50, 20, 10, 33),
      ScoreSet(50, 20, 10, 99), ScoreSet(250, 0, 0, 125) }

QueriesAsAsked ==
    [Direct |-> Slice(<<Qa>>), Intermediate |-> Slice(<<Qb>>),
     Indirect |-> Slice(<<Blank>>), Used |-> NilSlice]

QueriesCatalogue ==
    { QueriesAsAsked,
      [Direct |-> Slice(<<Qa, Qb>>), Intermediate |-> NilSlice,
       Indirect |-> Slice(<<Qb>>), Used |-> Slice(<<Qb, Qa, Qa, Blank>>)] }

SingleSuggestCatalogue ==
    { NilSlice,
      Slice([k \in 1..MaxSuggestionsSingle + 1 |->
                IF k = 2 THEN Blank ELSE <<" ", "s">>]) }

\* the decoded SEOAnalysisResult
SingleResult(q, pq, sc, sg) ==
    [Queries |-> [Direct |-> q.Direct, Intermediate |-> q.Intermediate,
                  Indirect |-> q.Indirect],
     PerQueryResults |-> pq, Scores |-> sc,
     Citations |-> Slice(<< <<" ", "c">> >>),
     KeywordsFromTheQueries |-> NilSlice,
     AllOfTheQueriesUsed |-> q.Used,
     Suggestions |-> sg]

SingleResults ==
    { SingleResult(q, pq, sc, sg) :
        q \in QueriesCatalogue, pq \in PerQueryCatalogue, sc \in ScoresCatalogue,
        sg \in SingleSuggestCatalogue }

\* transport: http.DefaultClient.Do failed;  status: StatusCode >= 300;
\* envelope: the body is no responses envelope
WebSearchOutcomes ==
    {TransportErr, Outcome("status", <<>>), Outcome("envelope", <<>>),
     BlankText, Malformed} \cup {Outcome("json", r) : r \in SingleResults}

\* callResponsesWebSearch returns a non-nil error
WebSearchFailed_DecodeIgnored(out) == out.kind \notin {"json", "malformed"}
WebSearchFailed(out) == out.kind # "json"

\* var result SEOAnalysisResult: the zero value json.Unmarshal starts from
ZeroResult ==
    [Queries |-> [Direct |-> NilSlice, Intermediate |-> NilSlice, Indirect |-> NilSlice],
     PerQueryResults |-> <<>>, Scores |-> ScoreSet(0, 0, 0, 0),
     Citations |-> NilSlice, KeywordsFromTheQueries |-> NilSlice,
     AllOfTheQueriesUsed |-> NilSlice, Suggestions |-> NilSlice]

\* result after json.Unmarshal([]byte(jsonText), &result)
DecodedResult(out) == IF out.kind = "json" THEN out.value ELSE ZeroResult

\* a row an earlier Single-Call request left
EarlierScan ==
    ScanRow(clampResult(normalizeResult(
        SingleResult(QueriesAsAsked, <<>>, ScoreSet(0, 0, 0, 0), NilSlice))))

(***************************************************************************)
(* Deadlines                                                               *)
(***************************************************************************)
\* context.WithTimeout(parent, d): the earlier of the parent's deadline and t + d
PerQueryCtxDeadline_Unnested(parent, t) == t + PerQueryTimeout
PerQueryCtxDeadline(parent, t) == Min(parent, t + PerQueryTimeout)

InFlightPcs == {"generating", "researching", "extracting", "suggesting", "requesting"}

\* the deadline of the context the call in flight was given
InFlightDeadline ==
    IF pc \in {"researching", "extracting"} THEN perQueryDeadline ELSE outerDeadline

\* client.Responses.New(ctx, ...) returns ctx's error once ctx is done
ContextAborts_Never(deadline) == FALSE
ContextAborts(deadline) == now >= deadline

Available(outs) == IF ContextAborts(InFlightDeadline) THEN {TransportErr} ELSE outs

(***************************************************************************)
(* State                                                                   *)
(***************************************************************************)
NoCfg == <<0, 0, 0>>
NoQueries == [c \in 1..NumCats |-> <<>>]
NoScores == [direct |-> RZero, intermediate |-> RZero, indirect |-> RZero,
             visibility |-> RZero]
NoProcReturn == [cat |-> 0, results |-> NilSlice, err |-> FALSE]
NoResult == [isNil |-> TRUE]
\* no function is called on its own while a request is handled
NoCall == [name |-> "", arg |-> <<>>, rets |-> <<>>]

\* a row an earlier request left: no queries produced, no suggestions
EarlierRow ==
    BrandAnalysisRow(ComputedScores(NoQueries, <<1, 1, 1>>), <<>>, <<>>,
                     FinalAnalysis(NoQueries))

\* no request has arrived yet
HandlerIdle ==
    /\ strategy = "none"
    /\ pc = "idle"
    /\ cfg = NoCfg
    /\ cur = 0
    /\ qi = 0
    /\ queries = NoQueries
    /\ results = NoQueries
    /\ procReturn = NoProcReturn
    /\ scores = NoScores
    /\ allQueries = <<>>
    /\ suggestions = <<>>
    /\ result = NoResult
    /\ trace = <<>>
    /\ now = 0
    /\ outerDeadline = 0
    /\ perQueryStart = 0
    /\ perQueryDeadline = 0
    /\ response = NoResponse
    /\ brand_analyses = <<EarlierRow>>
    /\ scans = <<EarlierScan>>
    /\ initial = [brand_analyses |-> brand_analyses, scans |-> scans]

Init == HandlerIdle /\ fn = NoCall

\* a request sent to a collaborator, not yet answered
Issue(tr, kind, c, q, arg) ==
    Append(tr, [kind |-> kind, cat |-> c, q |-> q, arg |-> arg, status |-> "pending",
                ctxDone |-> FALSE, outerDone |-> FALSE])

\* the answer to the request in flight: what the collaborator did, and whether
\* the context of the call, and the context of the run, were done by then
Settle(ok) ==
    [trace EXCEPT ![Len(trace)] =
        [@ EXCEPT !.status = IF ok THEN "ok" ELSE "failed",
                  !.ctxDone = now >= InFlightDeadline,
                  !.outerDone = now >= outerDeadline]]

Succeeded(out) == out.kind \in {"json", "text"}

\* the handler returns: its locals are gone
Finish(resp, tr) ==
    /\ pc' = "done"
    /\ response' = resp
    /\ trace' = tr
    /\ cfg' = NoCfg
    /\ cur' = 0
    /\ qi' = 0
    /\ queries' = NoQueries
    /\ results' = NoQueries
    /\ scores' = NoScores
    /\ allQueries' = <<>>
    /\ suggestions' = <<>>
    /\ result' = NoResult
    /\ outerDeadline' = 0
    /\ perQueryStart' = 0
    /\ perQueryDeadline' = 0

\* if req.NumDirect <= 0 { req.NumDirect = 1 }
NormalizeCount(n) == IF n <= 0 THEN 1 ELSE n

(***************************************************************************)
(* Multi-Call strategy: BrandWorkflowHandler                               *)
(***************************************************************************)
\* auth, request parsing, site lookup; then RunFullBrandWorkflow starts and
\* GenerateDirectQueries sends its request
MultiRequest(authOk, bindOk, siteFound, nd, ni, nn) ==
    /\ pc = "idle"
    /\ strategy' = "multi"
    /\ UNCHANGED <<procReturn, now, brand_analyses, scans, initial, fn>>
    /\ IF ~authOk THEN Finish(Respond(401, "unauthorized", NoData), trace)
       ELSE IF ~bindOk THEN Finish(Respond(400, "bad request", NoData), trace)
       ELSE IF ~siteFound THEN Finish(Respond(404, "site not found", NoData), trace)
       ELSE /\ cfg' = <<NormalizeCount(nd), NormalizeCount(ni), NormalizeCount(nn)>>
            /\ outerDeadline' = now + OuterTimeout
            /\ cur' = 1
            /\ pc' = "generating"
            /\ trace' = Issue(trace, "generate", 1, 0, NoData)
            /\ UNCHANGED <<qi, queries, results, scores, allQueries, suggestions,
                           result, perQueryStart, perQueryDeadline, response>>

\* ProcessQueriesForType, from position <<c, i>> of the query lists qs with the
\* results res so far: the next ProcessSingleQuery sends its research request,
\* or every category is done and RunFullBrandWorkflow returns the analysis
ContinueProcessing(qs, res, c, i, tr) ==
    LET w == NextWork(qs, c, i)
    IN  /\ queries' = qs
        /\ results' = res
        /\ IF w = NoWork
           THEN /\ pc' = "scoring"
                /\ cur' = 0
                /\ qi' = 0
                /\ trace' = tr
                /\ procReturn' = [cat |-> NumCats, results |-> Slice(res[NumCats]),
                                  err |-> FALSE]
                /\ UNCHANGED <<perQueryStart, perQueryDeadline>>
           ELSE /\ pc' = "researching"
                /\ cur' = w[1]
                /\ qi' = w[2]
                /\ perQueryStart' = now
                /\ perQueryDeadline' = PerQueryCtxDeadline(outerDeadline, now)
                /\ trace' = Issue(tr, "research", w[1], w[2], NoData)
                /\ procReturn' =
                       IF w[1] > c
                       THEN [cat |-> w[1] - 1, results |-> Slice(res[w[1] - 1]),
                             err |-> FALSE]
                       ELSE procReturn

\* RunFullBrandWorkflow generates the queries of every category before it
\* processes any
MoreToGenerate_Early(c) == c < NumCats - 1
MoreToGenerate(c) == c < NumCats

\* the answer to a GenerateQueriesForType request
GenerateReturn(out) ==
    /\ pc = "generating"
    /\ out \in Available(GenOutcomes)
    /\ UNCHANGED <<strategy, now, brand_analyses, scans, initial, fn>>
    /\ IF CallFailed(out) \/ DecodeFailed(out)
       THEN /\ Finish(Respond(502, <<"openai error", ErrorOf(out)>>, NoData),
                      Settle(Succeeded(out)))
            /\ UNCHANGED procReturn
       ELSE LET qs == [queries EXCEPT ![cur] = TruncateQueries(DecodedList(out), cfg[cur])]
            IN  /\ UNCHANGED <<cfg, scores, allQueries, suggestions, result,
                               outerDeadline, response>>
                /\ IF MoreToGenerate(cur)
                   THEN /\ queries' = qs
                        /\ cur' = cur + 1
                        /\ pc' = "generating"
                        /\ trace' = Issue(Settle(Succeeded(out)), "generate", cur + 1, 0, NoData)
                        /\ UNCHANGED <<qi, results, procReturn, perQueryStart, perQueryDeadline>>
                   ELSE ContinueProcessing(qs, results, 1, 1, Settle(Succeeded(out)))

\* ProcessQueriesForType returns its error: RunFullBrandWorkflow returns it and
\* the handler answers 502
AbortProcessing(out) ==
    /\ procReturn' = [cat |-> cur, results |-> ProcessFailureReturn(results[cur]),
                      err |-> TRUE]
    /\ Finish(Respond(502, <<"openai error", ErrorOf(out)>>, NoData),
              Settle(Succeeded(out)))

\* the answer to RunWebSearchForQuery's request; ExtractBrandsFromResearchText
\* sends its request under the same perQueryCtx
ResearchReturn(out) ==
    /\ pc = "researching"
    /\ out \in Available(ResearchOutcomes)
    /\ UNCHANGED <<strategy, now, brand_analyses, scans, initial, fn>>
    /\ IF CallFailed(out)
       THEN AbortProcessing(out)
       ELSE /\ pc' = "extracting"
            /\ trace' = Issue(Settle(Succeeded(out)), "extract", cur, qi, NoData)
            /\ UNCHANGED <<cfg, cur, qi, queries, results, procReturn, scores,
                           allQueries, suggestions, result, outerDeadline,
                           perQueryStart, perQueryDeadline, response>>

\* the answer to ExtractBrandsFromResearchText's request; ProcessSingleQuery
\* returns and the loop of ProcessQueriesForType goes on
ExtractReturn(out) ==
    /\ pc = "extracting"
    /\ out \in Available(ExtractOutcomes)
    /\ UNCHANGED <<strategy, now, brand_analyses, scans, initial, fn>>
    /\ IF CallFailed(out) \/ DecodeFailed(out)
       THEN AbortProcessing(out)
       ELSE LET r == [Query |-> queries[cur][qi],
                      Brands |-> NormalizeBrands(DecodedList(out))]
                res == [results EXCEPT ![cur] = Append(@, r)]
            IN  /\ ContinueProcessing(queries, res, cur, qi + 1, Settle(Succeeded(out)))
                /\ UNCHANGED <<cfg, scores, allQueries, suggestions, result,
                               outerDeadline, response>>

\* the handler computes the scores and the query list, and
\* GenerateSuggestionsForSite sends its request
ComputeScores ==
    /\ pc = "scoring"
    /\ scores' = ComputedScores(results, cfg)
    /\ allQueries' \in collectAllQueries(results)
    /\ pc' = "suggesting"
    /\ trace' = Issue(trace, "suggest", 0, 0, NoData)
    /\ UNCHANGED <<strategy, cfg, cur, qi, queries, results, procReturn, suggestions,
                   result, now, outerDeadline, perQueryStart, perQueryDeadline,
                   response, brand_analyses, scans, initial, fn>>

\* the answer to GenerateSuggestionsForSite's request; the row is built and
\* handed to the database
SuggestReturn(out) ==
    /\ pc = "suggesting"
    /\ out \in Available(SuggestOutcomes)
    /\ UNCHANGED <<strategy, procReturn, now, brand_analyses, scans, initial, fn>>
    /\ IF CallFailed(out) \/ DecodeFailed(out)
       THEN Finish(Respond(502, <<"suggestions error", ErrorOf(out)>>, NoData),
                   Settle(Succeeded(out)))
       ELSE /\ suggestions' = NormalizeSuggestions(DecodedSuggestions(out))
            /\ pc' = "persisting"
            /\ trace' = Issue(Settle(Succeeded(out)), "create", 0, 0,
                              BrandAnalysisRow(scores, suggestions', allQueries,
                                               FinalAnalysis(results)))
            /\ UNCHANGED <<cfg, cur, qi, queries, results, scores, allQueries, result,
                           outerDeadline, perQueryStart, perQueryDeadline, response>>

\* the answer of the database to Create(&ba)
CreateReturn(ok) ==
    /\ pc = "persisting"
    /\ strategy = "multi"
    /\ UNCHANGED <<strategy, procReturn, now, scans, initial, fn>>
    /\ LET analysis == FinalAnalysis(results)
           ba == trace[Len(trace)].arg
       IN  IF ok
           THEN /\ brand_analyses' = InsertRow(brand_analyses, ba)
                /\ Finish(Respond(200, "ok",
                                  [brand_analysis_id |-> Len(brand_analyses) + 1,
                                   site_id |-> ba.SiteID, scores |-> scores,
                                   queries |-> allQueries, suggestions |-> suggestions,
                                   analysis |-> analysis]),
                          Settle(TRUE))
           ELSE /\ UNCHANGED brand_analyses
                /\ Finish(Respond(500, "brand analysis save failed",
                                  SaveFailedData(analysis, suggestions, allQueries)),
                          Settle(FALSE))

(***************************************************************************)
(* Single-Call strategy: AnalyzeAndCreateScan                              *)
(***************************************************************************)
\* auth, request parsing, site lookup; then callResponsesWebSearch sends its
\* request
SingleRequest(authOk, bindOk, siteFound) ==
    /\ pc = "idle"
    /\ strategy' = "single"
    /\ UNCHANGED <<procReturn, now, brand_analyses, scans, initial, fn>>
    /\ IF ~authOk THEN Finish(Respond(401, "unauthorized", NoData), trace)
       ELSE IF ~bindOk THEN Finish(Respond(400, "bad request", NoData), trace)
       ELSE IF ~siteFound THEN Finish(Respond(404, "site not found", NoData), trace)
       ELSE /\ outerDeadline' = now + SingleTimeout
            /\ pc' = "requesting"
            /\ trace' = Issue(trace, "websearch", 0, 0, NoData)
            /\ UNCHANGED <<cfg, cur, qi, queries, results, scores, allQueries,
                           suggestions, result, perQueryStart, perQueryDeadline, response>>

\* the answer to callResponsesWebSearch's request; the result is normalized,
\* clamped, and the scan is handed to the database
WebSearchReturn(out) ==
    /\ pc = "requesting"
    /\ out \in Available(WebSearchOutcomes)
    /\ UNCHANGED <<strategy, procReturn, now, brand_analyses, scans, initial, fn>>
    /\ IF WebSearchFailed(out)
       THEN Finish(Respond(502, <<"openai error", out.kind>>, [raw |-> out.kind]),
                   Settle(Succeeded(out)))
       ELSE /\ result' = clampResult(normalizeResult(DecodedResult(out)))
            /\ pc' = "persisting"
            /\ trace' = Issue(Settle(Succeeded(out)), "create", 0, 0, ScanRow(result'))
            /\ UNCHANGED <<cfg, cur, qi, queries, results, scores, allQueries,
                           suggestions, outerDeadline, perQueryStart, perQueryDeadline, response>>

\* the answer of the database to Create(&scan)
ScanCreateReturn(ok) ==
    /\ pc = "persisting"
    /\ strategy = "single"
    /\ UNCHANGED <<strategy, procReturn, now, brand_analyses, initial, fn>>
    /\ IF ok
       THEN /\ scans' = InsertRow(scans, trace[Len(trace)].arg)
            /\ Finish(Respond(200, "ok", [scan_id |-> Len(scans) + 1, result |-> result]),
                      Settle(TRUE))
       ELSE /\ UNCHANGED scans
            /\ Finish(Respond(500, "scan save failed", [result |-> result, raw |-> "json"]),
                      Settle(FALSE))

(***************************************************************************)
(* Time                                                                    *)
(***************************************************************************)
\* time passes while a call is in flight, up to the deadline of its context
Tick ==
    /\ pc \in InFlightPcs
    /\ now < InFlightDeadline
    /\ now' = Min(now + TickStep, InFlightDeadline)
    /\ UNCHANGED <<strategy, pc, cfg, cur, qi, queries, results, procReturn, scores,
                   allQueries, suggestions, result, trace, outerDeadline,
                   perQueryStart, perQueryDeadline, response, brand_analyses, scans,
                   initial, fn>>

RequestedCounts == 0..MaxNum

Next ==
    \/ \E authOk, bindOk, siteFound \in BOOLEAN :
         \E nd, ni, nn \in RequestedCounts :
           MultiRequest(authOk, bindOk, siteFound, nd, ni, nn)
    \/ \E out \in GenOutcomes : GenerateReturn(out)
    \/ \E out \in ResearchOutcomes : ResearchReturn(out)
    \/ \E out \in ExtractOutcomes : ExtractReturn(out)
    \/ ComputeScores
    \/ \E out \in SuggestOutcomes : SuggestReturn(out)
    \/ \E ok \in BOOLEAN : CreateReturn(ok)
    \/ \E authOk, bindOk, siteFound \in BOOLEAN : SingleRequest(authOk, bindOk, siteFound)
    \/ \E out \in WebSearchOutcomes : WebSearchReturn(out)
    \/ \E ok \in BOOLEAN : ScanCreateReturn(ok)
    \/ Tick

Spec == Init /\ [][Next]_vars

(***************************************************************************)
(* extractJSONFromText                                                     *)
(***************************************************************************)
\* the backquote character is written "^" in this module
Backquote == "^"
\* the fence marker: three backquotes
Fence == <<Backquote, Backquote, Backquote>>

\* strings.HasPrefix, strings.HasSuffix
HasPrefix(s, p) == Len(s) >= Len(p) /\ SubSeq(s, 1, Len(p)) = p
HasSuffix(s, p) == Len(s) >= Len(p) /\ SubSeq(s, Len(s) - Len(p) + 1, Len(s)) = p

\* strings.IndexByte, 1-based: 0 when ch does not occur (Go: -1)
IndexByte(s, ch) ==
    IF \E i \in 1..Len(s) : s[i] = ch
    THEN CHOOSE i \in 1..Len(s) : s[i] = ch /\ \A j \in 1..(i - 1) : s[j] # ch
    ELSE 0

\* if strings.HasPrefix(s, fence): drop the first line, or everything when
\* there is no newline
StripLeadingFence(s) ==
    IF HasPrefix(s, Fence)
    THEN IF IndexByte(s, "\n") > 0 THEN SubSeq(s, IndexByte(s, "\n") + 1, Len(s)) ELSE <<>>
    ELSE s

\* if strings.HasSuffix(s, fence): strings.TrimSuffix(s, fence)
StripTrailingFence(s) ==
    IF HasSuffix(s, Fence) THEN SubSeq(s, 1, Len(s) - Len(Fence)) ELSE s

\* the for loop from index i on: the break leaves the switch only, so the
\* loop runs to the end of s and last is overwritten each time depth is 0
\* after a closing bracket
ScanLast_Start(s, i, depth, last) == i
RECURSIVE ScanLast(_, _, _, _)
ScanLast(s, i, depth, last) ==
    IF i > Len(s) THEN last
    ELSE IF s[i] \in {"{", "["} THEN ScanLast(s, i + 1, depth + 1, last)
    ELSE IF s[i] \in {"}", "]"}
         THEN ScanLast(s, i + 1, depth - 1, IF depth - 1 = 0 THEN i ELSE last)
    ELSE ScanLast(s, i + 1, depth, last)

\* start := strings.IndexByte(s, "{"); if start < 0 then IndexByte(s, "[")
StartOfJSON(s) == IF IndexByte(s, "{") > 0 THEN IndexByte(s, "{") ELSE IndexByte(s, "[")

\* s after trimming and fence stripping
Unfenced(s) == TrimSpace(StripTrailingFence(StripLeadingFence(TrimSpace(s))))

extractJSONFromText(s) ==
    LET t == Unfenced(s)
        start == StartOfJSON(t)
        last == IF start = 0 THEN 0 ELSE ScanLast(t, start, 0, 0)
    IN  IF start = 0 THEN t
        ELSE IF last >= start THEN TrimSpace(SubSeq(t, start, last))
        ELSE t

(***************************************************************************)
(* stripCodeFences and trimToBalancedJSON of the Single-Call strategy      *)
(***************************************************************************)
\* s = strings.TrimSpace(s); the leading fence line and the trailing fence
\* are dropped by the same two statements as in extractJSONFromText; then
\* return strings.TrimSpace(s)
stripCodeFences_Keep(s) == s
stripCodeFences(s) == TrimSpace(StripTrailingFence(StripLeadingFence(TrimSpace(s))))

\* the for loop of trimToBalancedJSON from index i on: braces only, and the
\* break leaves the switch only
RECURSIVE BraceScan(_, _, _, _)
BraceScan(s, i, depth, last) ==
    IF i > Len(s) THEN last
    ELSE IF s[i] = "{" THEN BraceScan(s, i + 1, depth + 1, last)
    ELSE IF s[i] = "}"
         THEN BraceScan(s, i + 1, depth - 1, IF depth - 1 = 0 THEN i ELSE last)
    ELSE BraceScan(s, i + 1, depth, last)

trimToBalancedJSON(s) ==
    LET start == IndexByte(s, "{")
        last == IF start = 0 THEN 0 ELSE BraceScan(s, start, 0, 0)
    IN  IF start = 0 THEN s
        ELSE IF last >= start THEN SubSeq(s, start, last)
        ELSE s

(***************************************************************************)
(* callOpenAIText                                                          *)
(***************************************************************************)
NoError == ""
\* errors.New("empty output from OpenAI")
ErrEmptyOutput == "empty output from OpenAI"
\* errors client.Responses.New may return
ClientErrors == {"context deadline exceeded", "401 Unauthorized"}

\* out = strings.TrimSpace(resp.OutputText())
CleanOutput_Raw(text) == text
CleanOutput(text) == TrimSpace(text)

\* (out, err) for what client.Responses.New returned
callOpenAIText(resp) ==
    IF resp.failed THEN [out |-> <<>>, err |-> resp.error]
    ELSE LET out == CleanOutput(resp.text)
         IN  IF out = <<>> THEN [out |-> <<>>, err |-> ErrEmptyOutput]
             ELSE [out |-> out, err |-> NoError]

(***************************************************************************)
(* GenerateQueriesForType                                                  *)
(***************************************************************************)
\* (queries, err) for a request of n queries when the service answers out
\* if n <= 0 { return []string{}, nil }
ShortCircuit_Never(n) == FALSE
ShortCircuit(n) == n <= 0

\* requests: how many times callOpenAIText was called
GenerateQueriesForType(n, out) ==
    IF ShortCircuit(n) THEN [queries |-> Slice(<<>>), err |-> FALSE, requests |-> 0]
    ELSE IF CallFailed(out) \/ DecodeFailed(out)
         THEN [queries |-> NilSlice, err |-> TRUE, requests |-> 1]
    ELSE [queries |-> Slice(TruncateQueries(DecodedList(out), n)), err |-> FALSE,
          requests |-> 1]

(***************************************************************************)
(* Functions called on their own                                           *)
(***************************************************************************)
\* longest text between the fences, longest per_query_results list
MaxTextLen == 4
MaxEntries == 2

SeqsUpTo(S, n) == UNION { [1..k -> S] : k \in 0..n }

\* what may come before and after the JSON part of an answer: nothing, a
\* fence line with or without a language tag and leading whitespace, a fence
\* without a newline, a repeated fence
Prefixes ==
    { <<>>, Fence \o <<"\n">>, <<"\n">> \o Fence \o <<"j", "\n">>,
      Fence \o <<"\n">> \o Fence \o <<"\n">> }
Suffixes ==
    { <<>>, Fence, <<"\n">> \o Fence \o <<" ">>, Fence \o <<" ">> \o Fence }
BodyChars == {"{", "}", "[", "]", "a"}

\* texts whose part between prefix and suffix has at most len characters
Texts(len) ==
    { pre \o body \o post :
        pre \in Prefixes, body \in SeqsUpTo(BodyChars, len), post \in Suffixes }

\* per_query_results the service may send
HitsCatalogue ==
    { <<>>, <<Hit(1, TRUE)>>, <<Hit(5, TRUE)>>, <<Hit(2, TRUE), Hit(7, TRUE)>>,
      <<Hit(1, TRUE), Hit(2, TRUE), Hit(3, TRUE), Hit(4, FALSE)>> }
EntryTypes == {"direct", "intermediate", "indirect", "other"}
\* lists of at most n entries
EntryLists(n) ==
    SeqsUpTo({ PerQuery(t, h) : t \in EntryTypes, h \in HitsCatalogue }, n)

\* the n GenerateQueriesForType is called with: negative, zero, positive
CallCounts == -1..MaxNum

Call(name, arg) == [name |-> name, arg |-> arg, rets |-> <<>>]

\* what client.Responses.New may return: an error, or a response whose
\* output text has at most len characters
ClientReturns(len) ==
    { [failed |-> TRUE, error |-> e, text |-> <<>>] : e \in ClientErrors }
    \cup { [failed |-> FALSE, error |-> NoError, text |-> t] :
             t \in SeqsUpTo({" ", "\n", "a"}, len) }

Calls(len, entries) ==
    { Call(f, s) : f \in {"extractJSONFromText", "trimToBalancedJSON"}, s \in Texts(len) }
    \cup { Call("callOpenAIText", r) : r \in ClientReturns(len) }
    \cup { Call("normalizeResult", SingleResult(QueriesAsAsked, pq, sc, NilSlice)) :
             pq \in EntryLists(entries), sc \in ScoresCatalogue }
    \cup { Call("GenerateQueriesForType", [qType |-> c, n |-> n, out |-> out]) :
             c \in 1..NumCats, n \in CallCounts, out \in GenOutcomes }

handlerVars == <<strategy, pc, cfg, cur, qi, queries, results, procReturn, scores,
                 allQueries, suggestions, result, trace, now, outerDeadline,
                 perQueryStart, perQueryDeadline, response, brand_analyses, scans,
                 initial>>

FnInit == HandlerIdle /\ fn \in Calls(MaxTextLen, MaxEntries)

Returned(v) == fn' = [fn EXCEPT !.rets = Append(@, v)]

\* extractJSONFromText(s), and then extractJSONFromText of what it returned
CallExtractJSON ==
    /\ fn.name = "extractJSONFromText"
    /\ Len(fn.rets) < 2
    /\ Returned(extractJSONFromText(IF fn.rets = <<>> THEN fn.arg ELSE fn.rets[1]))
    /\ UNCHANGED handlerVars

\* jsonText = stripCodeFences(jsonText); jsonText = trimToBalancedJSON(jsonText)
CallTrimToBalancedJSON ==
    /\ fn.name = "trimToBalancedJSON"
    /\ fn.rets = <<>>
    /\ Returned(trimToBalancedJSON(stripCodeFences(fn.arg)))
    /\ UNCHANGED handlerVars

CallNormalizeResult ==
    /\ fn.name = "normalizeResult"
    /\ fn.rets = <<>>
    /\ Returned(normalizeResult(fn.arg))
    /\ UNCHANGED handlerVars

CallGenerateQueries ==
    /\ fn.name = "GenerateQueriesForType"
    /\ fn.rets = <<>>
    /\ Returned(GenerateQueriesForType(fn.arg.n, fn.arg.out))
    /\ UNCHANGED handlerVars

CallOpenAIText ==
    /\ fn.name = "callOpenAIText"
    /\ fn.rets = <<>>
    /\ Returned(callOpenAIText(fn.arg))
    /\ UNCHANGED handlerVars

FnNext ==
    \/ CallExtractJSON
    \/ CallNormalizeResult
    \/ CallGenerateQueries
    \/ CallOpenAIText
    \/ CallTrimToBalancedJSON

FnSpec == FnInit /\ [][FnNext]_vars

(***************************************************************************)
(* Properties                                                              *)
(***************************************************************************)
GenerativeKinds == {"generate", "research", "extract", "suggest"}

Entries(kinds) == {k \in 1..Len(trace) : trace[k].kind \in kinds}

FailedCalls == {k \in Entries(GenerativeKinds) : trace[k].status = "failed"}

TablesUntouched ==
    /\ brand_analyses = initial.brand_analyses
    /\ scans = initial.scans

\* number of QueryBrandsResult entries of a FinalBrandAnalysis
AnalysisSize(a) ==
    Len(a.Direct.Queries.items) + Len(a.Intermediate.Queries.items)
        + Len(a.Indirect.Queries.items)

\* C1: in the Multi-Call strategy a row is created only in a run whose three
\* query generations, every research call, every brand extraction and the
\* suggestion call all succeeded (one research and one extraction per query
\* of the stored analysis); a run in which one of them failed creates no row
\* and never reaches the database.
C1_NoPartialPersistence ==
    strategy = "multi" =>
        /\ FailedCalls # {} => TablesUntouched /\ Entries({"create"}) = {}
        /\ brand_analyses # initial.brand_analyses =>
               LET row == brand_analyses[Len(brand_analyses)]
                   size == AnalysisSize(row.Analysis.json)
               IN  /\ \A k \in 1..Len(trace) : trace[k].status = "ok"
                   /\ Cardinality(Entries({"generate"})) = NumCats
                   /\ Cardinality(Entries({"research"})) = size
                   /\ Cardinality(Entries({"extract"})) = size
                   /\ Cardinality(Entries({"suggest"})) = 1
                   /\ trace[Len(trace)].kind = "create"

\* a Multi-Call run that created a row after processing at least two queries
C1_Witness ==
    /\ strategy = "multi"
    /\ pc = "done"
    /\ Len(brand_analyses) = Len(initial.brand_analyses) + 1
    /\ Cardinality(Entries({"extract"})) >= 2

\* C2: when research or brand extraction fails for a query, ProcessQueriesForType
\* returns an error with nil results (the results of the earlier queries of
\* the category are dropped), the failed call is the last request of the run,
\* the run ends with 502 and no table has changed.
C2_FirstFailureAbortsBatch ==
    \A k \in Entries({"research", "extract"}) :
        trace[k].status = "failed" =>
            /\ k = Len(trace)
            /\ pc = "done"
            /\ procReturn = [cat |-> trace[k].cat, results |-> NilSlice, err |-> TRUE]
            /\ response.status = 502
            /\ TablesUntouched

\* the extraction of a query failed after an earlier query of the same
\* category had been processed
C2_Witness ==
    \E k \in Entries({"extract"}) :
        /\ trace[k].status = "failed"
        /\ \E j \in Entries({"extract"}) :
               j < k /\ trace[j].cat = trace[k].cat /\ trace[j].status = "ok"

PhaseRank(kind) ==
    CASE kind = "generate" -> 1
      [] kind = "research" -> 2
      [] kind = "extract" -> 3
      [] kind = "suggest" -> 5
      [] kind = "create" -> 6
      [] OTHER -> 0

MergedRank(kind) ==
    CASE kind = "generate" -> 1
      [] kind \in {"research", "extract"} -> 2
      [] kind = "suggest" -> 5
      [] kind = "create" -> 6
      [] OTHER -> 0

\* C3 as stated: the requests of a Multi-Call run never return to an earlier
\* state of GeneratingQueries, ResearchingPerQuery, ExtractingBrands,
\* GeneratingSuggestions, Persisting: all research finishes before any
\* brand extraction.
C3_StrictPhaseOrder ==
    strategy = "multi" =>
        \A j, k \in 1..Len(trace) :
            j < k => PhaseRank(trace[j].kind) <= PhaseRank(trace[k].kind)

\* C3 amended: all three query generations succeed, in category order, before
\* any research call; research and extraction alternate query by query (each
\* research is followed by the extraction of the same query, and the queries
\* are taken in order, category by category); no research or extraction
\* follows the suggestion call; the scores are computed before the suggestion
\* call is sent; the persistence write is sent once, last.
C3_PhaseOrder ==
    strategy = "multi" =>
        /\ \A j, k \in 1..Len(trace) :
               j < k => MergedRank(trace[j].kind) <= MergedRank(trace[k].kind)
        /\ \A k \in Entries({"generate"}) : trace[k].cat = k
        /\ \A k \in Entries({"research"}) :
               /\ k > NumCats
               /\ \A j \in 1..NumCats : trace[j].kind = "generate" /\ trace[j].status = "ok"
               /\ trace[k].status = "ok" =>
                      /\ k < Len(trace)
                      /\ trace[k + 1].kind = "extract"
                      /\ trace[k + 1].cat = trace[k].cat
                      /\ trace[k + 1].q = trace[k].q
        /\ \A k \in Entries({"extract"}) :
               /\ trace[k - 1].kind = "research"
               /\ trace[k - 1].status = "ok"
        /\ \A j, k \in Entries({"research"}) :
               j < k => /\ Before(<<trace[j].cat, trace[j].q>>, <<trace[k].cat, trace[k].q>>)
                        /\ <<trace[j].cat, trace[j].q>> # <<trace[k].cat, trace[k].q>>
        /\ pc = "scoring" =>
               /\ Entries({"suggest", "create"}) = {}
               /\ \A k \in 1..Len(trace) : trace[k].status = "ok"
        /\ pc \in {"suggesting", "persisting"} => scores = ComputedScores(results, cfg)
        /\ Cardinality(Entries({"suggest"})) <= 1
        /\ Cardinality(Entries({"create"})) <= 1
        /\ \A k \in Entries({"create"}) :
               k = Len(trace) /\ trace[k - 1].kind = "suggest" /\ trace[k - 1].status = "ok"

\* a complete run in which a research call followed a brand extraction
C3_Witness ==
    /\ strategy = "multi"
    /\ pc = "done"
    /\ response.status = 200
    /\ \E j, k \in 1..Len(trace) :
           j < k /\ trace[j].kind = "extract" /\ trace[k].kind = "research"

IsPrefix(old, new) == Len(old) <= Len(new) /\ SubSeq(new, 1, Len(old)) = old

OkCreates == {k \in Entries({"create"}) : trace[k].status = "ok"}

\* C4: a run sends at most one create; the rows a request found are still
\* there, unchanged and in place; a table grows only by the rows of the
\* creates that succeeded; a run that answers 200 has made exactly one
\* create, which added exactly the row it was given to its own table.
C4_OneCreatePerRun ==
    /\ IsPrefix(initial.brand_analyses, brand_analyses)
    /\ IsPrefix(initial.scans, scans)
    /\ Cardinality(Entries({"create"})) <= 1
    /\ Len(brand_analyses) - Len(initial.brand_analyses)
           = IF strategy = "multi" THEN Cardinality(OkCreates) ELSE 0
    /\ Len(scans) - Len(initial.scans)
           = IF strategy = "single" THEN Cardinality(OkCreates) ELSE 0
    /\ pc = "done" /\ response.status = 200 =>
           /\ Cardinality(OkCreates) = 1
           /\ strategy = "multi" =>
                  brand_analyses = Append(initial.brand_analyses, trace[Len(trace)].arg)
           /\ strategy = "single" =>
                  scans = Append(initial.scans, trace[Len(trace)].arg)

\* a successful Multi-Call run added a row that differs from the one it found
C4_Witness ==
    /\ strategy = "multi"
    /\ pc = "done"
    /\ response.status = 200
    /\ Len(brand_analyses) = 2
    /\ brand_analyses[2] # brand_analyses[1]

\* C5: when the create of a Multi-Call run fails, the 500 response carries the
\* analysis, the suggestions and the query list of the row that was handed to
\* the database, the query list has no duplicates, and no table has changed.
C5_SaveFailureKeepsWork ==
    (strategy = "multi" /\ pc = "done" /\ Entries({"create"}) # {}
        /\ trace[Len(trace)].status = "failed") =>
        LET row == trace[Len(trace)].arg
        IN  /\ response.status = 500
            /\ response.data = [analysis |-> row.Analysis.json,
                                suggestions |-> row.Suggestions,
                                queries |-> row.Queries]
            /\ \A x, y \in 1..Len(row.Queries) :
                   row.Queries[x] = row.Queries[y] => x = y
            /\ TablesUntouched

\* the create failed for a row with two queries and some suggestions
C5_Witness ==
    /\ strategy = "multi"
    /\ pc = "done"
    /\ response.status = 500
    /\ Len(response.data.queries) = 2
    /\ response.data.suggestions # <<>>
    /\ AnalysisSize(response.data.analysis) >= 2

\* C6: a generative call that is in flight when the deadline of the run
\* expires returns an error, is the last request of the run, and the run ends
\* with 502 and no table changed.
C6_OuterDeadlineAborts ==
    \A k \in Entries(GenerativeKinds) :
        trace[k].outerDone =>
            /\ trace[k].status = "failed"
            /\ k = Len(trace)
            /\ pc = "done"
            /\ response.status = 502
            /\ TablesUntouched

\* the deadline of the run expired during a brand extraction
C6_Witness ==
    \E k \in Entries({"extract"}) : trace[k].outerDone /\ now = OuterTimeout

\* C7: a research or extraction call runs under a context whose deadline is
\* at most PerQueryTimeout after the query started, never later than the
\* deadline of the run, and PerQueryTimeout is shorter than OuterTimeout; the
\* call never runs past that deadline, and a call in flight when it is reached
\* returns an error and ends the run.
C7_NestedDeadline ==
    /\ PerQueryTimeout < OuterTimeout
    /\ pc \in {"researching", "extracting"} =>
           /\ perQueryDeadline <= outerDeadline
           /\ perQueryDeadline <= perQueryStart + PerQueryTimeout
           /\ perQueryStart <= now
           /\ now <= perQueryDeadline
           /\ now - perQueryStart < OuterTimeout
    /\ \A k \in Entries({"research", "extract"}) :
           trace[k].ctxDone => trace[k].status = "failed" /\ k = Len(trace) /\ pc = "done"

\* a research call was aborted by its nested deadline before the run's expired
C7_Witness ==
    \E k \in Entries({"research"}) :
        trace[k].ctxDone /\ ~trace[k].outerDone /\ now < OuterTimeout

Processed == { <<trace[k].cat, trace[k].q>> : k \in Entries({"research"}) }

\* C8: no request of a Multi-Call run is sent twice, the run sends at most
\* 3 + 2 * (queries processed) + 1 generative requests, and a failed request
\* is the last request of its run.
C8_NoRetry ==
    strategy = "multi" =>
        /\ \A j, k \in Entries(GenerativeKinds) :
               (/\ trace[j].kind = trace[k].kind
                /\ trace[j].cat = trace[k].cat
                /\ trace[j].q = trace[k].q) => j = k
        /\ Cardinality(Entries(GenerativeKinds)) <= NumCats + 2 * Cardinality(Processed) + 1
        /\ \A k \in FailedCalls : k = Len(trace)

\* the suggestion request failed after two queries had been processed
C8_Witness ==
    /\ strategy = "multi"
    /\ \E k \in FailedCalls : trace[k].kind = "suggest"
    /\ Cardinality(Processed) >= 2

InRange(x) == RLeq(RZero, x) /\ RLeq(x, RInt(100))

\* C9 as stated: the three category scores of every row of either table lie
\* in [0, 100].
C9_ScoresInRange ==
    /\ \A k \in 1..Len(brand_analyses) :
           /\ InRange(brand_analyses[k].DirectScore)
           /\ InRange(brand_analyses[k].IntermediateScore)
           /\ InRange(brand_analyses[k].IndirectScore)
    /\ \A k \in 1..Len(scans) :
           /\ InRange(scans[k].Score1)
           /\ InRange(scans[k].Score2)
           /\ InRange(scans[k].Score3)

\* C10 as stated: the VisibilityScore of every row of either table is
\* 0.5 * direct + 0.3 * intermediate + 0.2 * indirect of that row.
C10_VisibilityFormula ==
    /\ \A k \in 1..Len(brand_analyses) :
           brand_analyses[k].VisibilityScore
               = Visibility(brand_analyses[k].DirectScore,
                            brand_analyses[k].IntermediateScore,
                            brand_analyses[k].IndirectScore)
    /\ \A k \in 1..Len(scans) :
           scans[k].VisibilityScore
               = Visibility(scans[k].Score1, scans[k].Score2, scans[k].Score3)

\* C11 as stated: in every result of either strategy, live or stored, category
\* scores in [0, 100] give a VisibilityScore in [0, 100], and three category
\* scores of 0 give a VisibilityScore of 0.
VisibilityBounded(d, i, n, v) ==
    /\ (InRange(d) /\ InRange(i) /\ InRange(n)) => InRange(v)
    /\ (d = RZero /\ i = RZero /\ n = RZero) => v = RZero

C11_VisibilityInRange ==
    /\ VisibilityBounded(scores.direct, scores.intermediate, scores.indirect,
                         scores.visibility)
    /\ result # NoResult =>
           VisibilityBounded(result.Scores.direct, result.Scores.intermediate,
                             result.Scores.indirect, result.Scores.visibility)
    /\ \A k \in 1..Len(brand_analyses) :
           VisibilityBounded(brand_analyses[k].DirectScore,
                             brand_analyses[k].IntermediateScore,
                             brand_analyses[k].IndirectScore,
                             brand_analyses[k].VisibilityScore)
    /\ \A k \in 1..Len(scans) :
           VisibilityBounded(scans[k].Score1, scans[k].Score2, scans[k].Score3,
                             scans[k].VisibilityScore)

\* the brand entries of a category, counted one by one
BrandEntries(g) ==
    Cardinality(UNION { { <<q, b>> : b \in 1..Len(g[q].Brands) } : q \in 1..Len(g) })

ScoreOf(sc, c) ==
    CASE c = 1 -> sc.direct
      [] c = 2 -> sc.intermediate
      [] c = 3 -> sc.indirect

\* C12: once the Multi-Call handler has computed its scores, the score of each
\* category is (brand entries of all its query results) / (10 * configured
\* query count, or 1 when that is 0) * 100; the divisor is positive; a
\* category without query results scores 0; the row handed to the database
\* carries these scores.
C12_CategoryScoreFormula ==
    (strategy = "multi" /\ pc \in {"suggesting", "persisting"}) =>
        /\ \A c \in 1..NumCats :
               LET den == IF maxBrandsPerQuery * cfg[c] = 0 THEN 1
                          ELSE maxBrandsPerQuery * cfg[c]
               IN  /\ den > 0
                   /\ ScoreOf(scores, c) = Rat(100 * BrandEntries(results[c]), den)
                   /\ results[c] = <<>> => ScoreOf(scores, c) = RZero
        /\ pc = "persisting" =>
               LET row == trace[Len(trace)].arg
               IN  /\ row.DirectScore = scores.direct
                   /\ row.IntermediateScore = scores.intermediate
                   /\ row.IndirectScore = scores.indirect

\* scores were computed for a category without results and for a category
\* with two query results and brands
C12_Witness ==
    /\ strategy = "multi"
    /\ pc = "persisting"
    /\ \E c \in 1..NumCats : results[c] = <<>> /\ ScoreOf(scores, c) = RZero
    /\ \E c \in 1..NumCats :
           /\ Len(results[c]) = 2
           /\ cfg[c] = 2
           /\ BrandEntries(results[c]) > 0
           /\ ScoreOf(scores, c) # RZero

Returns(name) == fn.name = name /\ fn.rets # <<>>

\* percent weight of a hit at ranks 1..5
WeightPercent == <<100, 80, 60, 40, 20>>

\* hits of rank r flagged as mention in the entries of one type
MentionsAtRank(pqs, type, r) ==
    Cardinality(UNION { { <<e, h>> : h \in { x \in 1..Len(pqs[e].Results) :
                                               /\ pqs[e].Results[x].IsMention
                                               /\ pqs[e].Results[x].Rank = r } } :
                        e \in { y \in 1..Len(pqs) : pqs[y].Type = type } })

WeightSum(pqs, type) ==
    MentionsAtRank(pqs, type, 1) * WeightPercent[1]
        + MentionsAtRank(pqs, type, 2) * WeightPercent[2]
        + MentionsAtRank(pqs, type, 3) * WeightPercent[3]
        + MentionsAtRank(pqs, type, 4) * WeightPercent[4]
        + MentionsAtRank(pqs, type, 5) * WeightPercent[5]

QueriesOfType(pqs, type) ==
    LET n == Cardinality({ e \in 1..Len(pqs) : pqs[e].Type = type })
    IN  IF n = 0 THEN 1 ELSE n

\* C13: when normalizeResult computes the scores itself, each category score
\* is (sum of the rank weights 1.0, 0.8, 0.6, 0.4, 0.2 of the hits flagged as
\* mention in the entries of that category) / (number of entries of that
\* category, or 1 when there is none) * 100; one direct entry with a single
\* rank-1 mention hit gives a direct score of 100.
C13_RankWeightedScore ==
    (Returns("normalizeResult") /\ RecomputeTrigger(fn.arg)) =>
        LET pqs == fn.arg.PerQueryResults
            sc == fn.rets[1].Scores
        IN  /\ sc.direct = Rat(WeightSum(pqs, "direct"), QueriesOfType(pqs, "direct"))
            /\ sc.intermediate
                   = Rat(WeightSum(pqs, "intermediate"), QueriesOfType(pqs, "intermediate"))
            /\ sc.indirect = Rat(WeightSum(pqs, "indirect"), QueriesOfType(pqs, "indirect"))
            /\ pqs = << PerQuery("direct", <<Hit(1, TRUE)>>) >> => sc.direct = RInt(100)

\* the scores of one direct entry with a single rank-1 mention hit were computed
C13_Witness ==
    /\ Returns("normalizeResult")
    /\ RecomputeTrigger(fn.arg)
    /\ fn.arg.PerQueryResults = << PerQuery("direct", <<Hit(1, TRUE)>>) >>
    /\ fn.rets[1].Scores.direct = RInt(100)

CategoryScoresZero(sc) ==
    sc.direct = RZero /\ sc.intermediate = RZero /\ sc.indirect = RZero

C15_Idempotent ==
    (fn.name = "extractJSONFromText" /\ Len(fn.rets) = 2) => fn.rets[2] = fn.rets[1]

Openers == {"{", "["}
Closers == {"}", "]"}

\* the first "{" of s, or its first "[" when it has no "{"; 0 when neither
FirstOpening(s) ==
    LET braces == { i \in 1..Len(s) : s[i] = "{" }
        brackets == { i \in 1..Len(s) : s[i] = "[" }
        first(S) == CHOOSE i \in S : \A j \in S : i <= j
    IN  IF braces # {} THEN first(braces)
        ELSE IF brackets # {} THEN first(brackets) ELSE 0

\* nesting depth after s[i], counted from s[from]
NetDepth(s, from, i) ==
    Cardinality({ k \in from..i : s[k] \in Openers })
        - Cardinality({ k \in from..i : s[k] \in Closers })

\* positions after from where a closing bracket brings the depth back to zero
ClosingPoints(s, from) ==
    { i \in (from + 1)..Len(s) : s[i] \in Closers /\ NetDepth(s, from, i) = 0 }

\* C16 as stated: for an input with an opening bracket and a position where
\* the depth returns to zero, the result is the input from its first opening
\* bracket to the first such position.
C16_FirstClosingPoint ==
    (Returns("extractJSONFromText") /\ FirstOpening(fn.arg) > 0
        /\ ClosingPoints(fn.arg, FirstOpening(fn.arg)) # {}) =>
        LET start == FirstOpening(fn.arg)
            points == ClosingPoints(fn.arg, start)
            first == CHOOSE i \in points : \A j \in points : i <= j
        IN  fn.rets[1] = SubSeq(fn.arg, start, first)

\* the closing bracket at i closes an opening bracket of its own kind
MatchesOpening(v, i) ==
    \E j \in 1..(i - 1) :
        /\ v[j] = (IF v[i] = "}" THEN "{" ELSE "[")
        /\ NetDepth(v, j, i) = 0
        /\ \A k \in j..(i - 1) : NetDepth(v, j, k) > 0

\* one top-level object or array with well-nested brackets; "a" stands for
\* its keys and scalars
JSONValues ==
    { v \in SeqsUpTo(BodyChars, MaxTextLen) :
        /\ Len(v) >= 2
        /\ v[1] \in Openers
        /\ NetDepth(v, 1, Len(v)) = 0
        /\ \A i \in 1..(Len(v) - 1) : NetDepth(v, 1, i) > 0
        /\ \A i \in 1..Len(v) : v[i] \in Closers => MatchesOpening(v, i) }

\* a fence line, with or without a language tag, and a closing fence marker
FenceLines == { Fence \o <<"\n">>, <<"\n">> \o Fence \o <<"j", "\n">> }
FenceEnds == { Fence, <<"\n">> \o Fence \o <<" ">> }

\* C17 as stated: for a balanced JSON object or array between a fence line and
\* a closing fence marker, the result is exactly that JSON value.
C17_FencedValueReturned ==
    Returns("extractJSONFromText") =>
        \A v \in JSONValues :
            (\E pre \in FenceLines, post \in FenceEnds : fn.arg = pre \o v \o post)
                => fn.rets[1] = v

TextChars == BodyChars \cup WhiteSpace \cup {Backquote, "j"}

\* the scan of extractJSONFromText finds no closing point in t
NoClosingPoint(t) == FirstOpening(t) = 0 \/ ClosingPoints(t, FirstOpening(t)) = {}

C19_TruncatesToN ==
    (Returns("GenerateQueriesForType") /\ fn.arg.n > 0 /\ ~fn.rets[1].err) =>
        LET produced == fn.arg.out.value
            got == fn.rets[1].queries.items
            n == fn.arg.n
        IN  /\ Len(got) <= n
            /\ Len(produced) > n =>
                   /\ Len(got) = n
                   /\ \A k \in 1..n : got[k] = produced[k]
            /\ Len(produced) <= n => got = produced

\* the service produced more queries than were asked for
C19_Witness ==
    /\ Returns("GenerateQueriesForType")
    /\ fn.arg.n = MaxNum
    /\ ~fn.rets[1].err
    /\ Len(fn.arg.out.value) > fn.arg.n
    /\ Len(fn.rets[1].queries.items) = fn.arg.n

\* the brand token of the site
BrandToken == <<"b">>

ContainsToken(q, tok) ==
    \E i \in 1..(Len(q) - Len(tok) + 1) : SubSeq(q, i, i + Len(tok) - 1) = tok

\* C20 as stated: every query a successful GenerateQueriesForType returns
\* contains a brand token when the category is direct, and none when the
\* category is intermediate or indirect.
C20_BrandTokenConstraint ==
    (Returns("GenerateQueriesForType") /\ ~fn.rets[1].err) =>
        \A k \in 1..Len(fn.rets[1].queries.items) :
            ContainsToken(fn.rets[1].queries.items[k], BrandToken)
                <=> Categories[fn.arg.qType] = "direct"

\* C21: GenerateQueriesForType called with n <= 0 returns an empty list that
\* is not nil and no error, and sends no request to the service, whatever
\* the service would have answered.
C21_ShortCircuit ==
    (Returns("GenerateQueriesForType") /\ fn.arg.n <= 0) =>
        /\ fn.rets[1].queries = Slice(<<>>)
        /\ ~fn.rets[1].queries.isNil
        /\ ~fn.rets[1].err
        /\ fn.rets[1].requests = 0

\* called with a negative n while the service would have failed
C21_Witness ==
    /\ Returns("GenerateQueriesForType")
    /\ fn.arg.n < 0
    /\ fn.arg.out = TransportErr
    /\ fn.rets[1] = [queries |-> Slice(<<>>), err |-> FALSE, requests |-> 0]

AllWhite(t) == \A i \in 1..Len(t) : t[i] \in WhiteSpace

\* C22: callOpenAIText has three outcomes: the error of the client when the
\* request failed; the empty-output error, which differs from every error of
\* the client, when the request succeeded and its text is empty or all
\* whitespace; otherwise no error and the text without its outer whitespace,
\* which is not empty and neither starts nor ends with whitespace.
C22_ThreeOutcomes ==
    Returns("callOpenAIText") =>
        LET resp == fn.arg
            r == fn.rets[1]
        IN  /\ resp.failed =>
                   /\ r = [out |-> <<>>, err |-> resp.error]
                   /\ r.err \notin {NoError, ErrEmptyOutput}
            /\ (~resp.failed /\ AllWhite(resp.text)) =>
                   r = [out |-> <<>>, err |-> ErrEmptyOutput]
            /\ (~resp.failed /\ ~AllWhite(resp.text)) =>
                   /\ r.err = NoError
                   /\ r.out # <<>>
                   /\ r.out[1] \notin WhiteSpace
                   /\ r.out[Len(r.out)] \notin WhiteSpace
                   /\ \E i, j \in 1..Len(resp.text) :
                          /\ r.out = SubSeq(resp.text, i, j)
                          /\ AllWhite(SubSeq(resp.text, 1, i - 1))
                          /\ AllWhite(SubSeq(resp.text, j + 1, Len(resp.text)))
            /\ ErrEmptyOutput # NoError

\* a text of whitespace only gave the empty-output error
C22_Witness ==
    /\ Returns("callOpenAIText")
    /\ ~fn.arg.failed
    /\ Len(fn.arg.text) >= 2
    /\ fn.rets[1].err = ErrEmptyOutput

\* the query results that a stored analysis or the running handler holds
GroupsOf(a) == <<a.Direct.Queries.items, a.Intermediate.Queries.items, a.Indirect.Queries.items>>

\* every brand of the groups has citations that are not nil, and is the
\* decoded brand of its position with a nil list replaced by the empty one
CitationsNormalized(groups) ==
    \A c \in 1..NumCats : \A q \in 1..Len(groups[c]) :
        \A i \in 1..Len(groups[c][q].Brands) :
            LET b == groups[c][q].Brands[i]
                d == DecodedBrand(i)
            IN  /\ ~b.Citations.isNil
                /\ b.Name = d.Name /\ b.URL = d.URL
                /\ d.Citations.isNil => b.Citations = Slice(<<>>)
                /\ ~d.Citations.isNil => b.Citations = d.Citations

\* C23: every brand that a successful ExtractBrandsFromResearchText returned
\* to the Multi-Call handler, and every brand of an analysis the handler
\* stored, has citations that are not nil: a missing or null list became the
\* empty list, a list that was present is unchanged.
C23_CitationsNonNil ==
    strategy = "multi" =>
        /\ CitationsNormalized(results)
        /\ \A k \in (Len(initial.brand_analyses) + 1)..Len(brand_analyses) :
               CitationsNormalized(GroupsOf(brand_analyses[k].Analysis.json))

\* an analysis was stored whose brands were decoded both with and without a
\* citations list
C23_Witness ==
    /\ strategy = "multi"
    /\ Len(brand_analyses) > Len(initial.brand_analyses)
    /\ \E c \in 1..NumCats :
           LET g == GroupsOf(brand_analyses[Len(brand_analyses)].Analysis.json)[c]
           IN  /\ g # <<>>
               /\ Len(g[1].Brands) >= 2
               /\ g[1].Brands[1].Citations = Slice(<<<<"c">>>>)
               /\ g[1].Brands[2].Citations = Slice(<<>>)

\* the query texts of the analysis, with their outer whitespace removed
TrimmedQueryTexts(res) ==
    { TrimSpace(res[c][j].Query) : <<c, j>> \in
          UNION { { <<c, j>> : j \in 1..Len(res[c]) } : c \in 1..NumCats } }

\* C24: the query list the Multi-Call handler collects from its analysis
\* holds every trimmed, non-empty query text of the three groups exactly
\* once: no duplicates, no text that is not in the analysis, none left out,
\* also when one text occurs in several categories with different outer
\* whitespace; the row handed to the database carries that list.
C24_DistinctTrimmedQueries ==
    (strategy = "multi" /\ pc \in {"suggesting", "persisting"}) =>
        /\ \A x, y \in 1..Len(allQueries) : allQueries[x] = allQueries[y] => x = y
        /\ { allQueries[x] : x \in 1..Len(allQueries) } = TrimmedQueryTexts(results) \ {<<>>}
        /\ pc = "persisting" => trace[Len(trace)].arg.Queries = allQueries

\* the same text, up to whitespace, was processed in two categories and the
\* collected list holds it once
C24_Witness ==
    /\ strategy = "multi"
    /\ pc = "persisting"
    /\ \E c, d \in 1..NumCats :
           /\ c # d
           /\ \E j \in 1..Len(results[c]) : results[c][j].Query = Qa
           /\ \E j \in 1..Len(results[d]) : results[d][j].Query = QaPadded
    /\ Cardinality({ x \in 1..Len(allQueries) : allQueries[x] = Qa }) = 1
    /\ Len(allQueries) = 2

\* the run reached the database with its result, or has answered 200
RunSucceeded(s) ==
    /\ strategy = s
    /\ \/ pc = "persisting"
       \/ pc = "done" /\ response.status = 200

\* the suggestions of a successful run: those the handler holds when it
\* hands its row to the database, then those of its 200 response
FinalSuggestions ==
    IF pc = "persisting"
    THEN IF strategy = "multi" THEN suggestions ELSE result.Suggestions.items
    ELSE IF strategy = "multi" THEN response.data.suggestions
         ELSE response.data.result.Suggestions.items

\* C25: the suggestions of a successful run are capped, keeping the first
\* entries in their order: at most 10 in Multi-Call, where they are the first
\* entries of the trimmed non-blank suggestions of the service, and at most 8
\* in Single-Call, where they are the first entries of the list of the
\* service.
C25_SuggestionsCapped ==
    /\ RunSucceeded("multi") =>
           /\ Len(FinalSuggestions) <= MaxSuggestionsAsked
           /\ \E s \in SuggestCatalogue :
                  IsPrefix(FinalSuggestions, NormalizeSuggestions(s.items))
    /\ RunSucceeded("single") =>
           /\ Len(FinalSuggestions) <= MaxSuggestionsSingle
           /\ \E s \in SingleSuggestCatalogue : IsPrefix(FinalSuggestions, s.items)

\* a text that is not blank and has no outer whitespace
IsTrimmedText(t) == t # <<>> /\ TrimSpace(t) = t

\* C26: in both strategies every suggestion of a successful run is a text
\* that is not blank and neither starts nor ends with whitespace.
C26_SuggestionsTrimmed ==
    (RunSucceeded("multi") \/ RunSucceeded("single")) =>
        \A k \in 1..Len(FinalSuggestions) : IsTrimmedText(FinalSuggestions[k])

\* C27: the query list of the scan that the Single-Call handler hands to the
\* database is the direct query, then the intermediate query, then the
\* indirect query of its result, whatever the service put in
\* all_of_the_queries_used.
C27_SingleFixedOrder ==
    (strategy = "single" /\ pc = "persisting") =>
        trace[Len(trace)].arg.Queries =
            result.Queries.Direct.items \o result.Queries.Intermediate.items
                \o result.Queries.Indirect.items

\* the queries of qs that are not blank, in their order
NonBlankQueries(qs) == SelectSeq(qs, LAMBDA q : ~AllWhite(q))

\* C28: while the Multi-Call handler holds its queries, no research or
\* extraction request was sent for a blank query; and when
\* ProcessQueriesForType has returned without error, its list is not nil and
\* holds one result per non-blank query of the category, in the order of the
\* queries, each with the query text as it was given, and one research
\* request was sent for each of them.
C28_BlankQueriesSkipped ==
    (strategy = "multi" /\ pc \in {"researching", "extracting", "scoring",
                                   "suggesting", "persisting"}) =>
        /\ \A k \in Entries({"research", "extract"}) :
               ~AllWhite(queries[trace[k].cat][trace[k].q])
        /\ (procReturn.cat > 0 /\ ~procReturn.err) =>
               LET rs == procReturn.results
                   qs == NonBlankQueries(queries[procReturn.cat])
               IN  /\ ~rs.isNil
                   /\ Len(rs.items) = Len(qs)
                   /\ \A j \in 1..Len(qs) : rs.items[j].Query = qs[j]
                   /\ Cardinality({ k \in Entries({"research"}) :
                                      trace[k].cat = procReturn.cat }) = Len(qs)

\* the category had a blank query followed by a padded one, and the list
\* returned for it holds the padded text alone
C28_Witness ==
    /\ strategy = "multi"
    /\ procReturn.cat > 0
    /\ ~procReturn.err
    /\ pc \in {"researching", "scoring"}
    /\ queries[procReturn.cat] = <<Blank, QaPadded>>
    /\ Len(procReturn.results.items) = 1
    /\ procReturn.results.items[1].Query = QaPadded

\* C29: in a Single-Call run a scan is created only after the site was found
\* and the request to the service succeeded, that is, the status was below
\* 300, the message text was not empty and the text decoded: the scan is
\* handed to the database only after a successful request, a run answered
\* 502 has one failed request and no new scan, and a run answered 401, 400 or
\* 404 has sent no request and created no scan.
C29_ScanOnlyOnSuccess ==
    strategy = "single" =>
        /\ IsPrefix(initial.scans, scans)
        /\ Len(scans) <= Len(initial.scans) + 1
        /\ pc = "persisting" =>
               /\ Len(trace) = 2
               /\ trace[1].kind = "websearch" /\ trace[1].status = "ok"
               /\ scans = initial.scans
        /\ scans # initial.scans =>
               /\ pc = "done" /\ response.status = 200
               /\ Len(trace) = 2
               /\ trace[1].kind = "websearch" /\ trace[1].status = "ok"
               /\ trace[2].kind = "create" /\ trace[2].status = "ok"
               /\ scans[Len(scans)] = trace[2].arg
        /\ (pc = "done" /\ response.status = 502) =>
               /\ scans = initial.scans
               /\ Len(trace) = 1
               /\ trace[1].kind = "websearch" /\ trace[1].status = "failed"
               /\ response.message[2] \in
                      {"transport", "status", "envelope", "blank", "malformed"}
        /\ (pc = "done" /\ response.status \in {400, 401, 404}) =>
               /\ scans = initial.scans
               /\ trace = <<>>

\* a scan was created
C29_Witness ==
    /\ strategy = "single"
    /\ pc = "done"
    /\ response.status = 200
    /\ Len(scans) = Len(initial.scans) + 1
    /\ trace[1].status = "ok"

\* the text has neither an opening nor a closing square bracket
NoSquareBrackets(s) == \A i \in 1..Len(s) : s[i] \notin {"[", "]"}

\* C30: for every text without square brackets, what the Single-Call path
\* returns, trimToBalancedJSON(stripCodeFences(s)), is what
\* extractJSONFromText(s) returns.
C30_ExtractionPathsAgree ==
    (Returns("trimToBalancedJSON") /\ NoSquareBrackets(fn.arg)) =>
        fn.rets[1] = extractJSONFromText(fn.arg)

\* a fenced text with an object and something after it, cut down to the
\* object
C30_Witness ==
    /\ Returns("trimToBalancedJSON")
    /\ NoSquareBrackets(fn.arg)
    /\ HasPrefix(fn.arg, Fence)
    /\ HasSuffix(fn.arg, Fence)
    /\ fn.rets[1] = <<"{", "}">>
    /\ Len(fn.arg) > Len(fn.rets[1]) + 2 * Len(Fence) + 1

====
